---- MODULE Spec2Model ----
(***************************************************************************)
(* spf-flattener: the SPF walker (dns/resolver.go), the canonicalizer      *)
(* (cidr/sort.go), the segment packer (formatter/output.go) and the run    *)
(* that chains them (main.go).                                             *)
(*                                                                         *)
(* Strings are sequences of one-character strings, so that prefix tests,   *)
(* lengths and joins are computed as the code computes them.  A net.IP is  *)
(* a sequence of 4 or 16 bytes, the nil IP is the empty sequence.          *)
(***************************************************************************)
EXTENDS Integers, Sequences, FiniteSets, TLC

---------------------------------------------------------------------------
(* Strings                                                                 *)

HexDigits == <<"0","1","2","3","4","5","6","7","8","9","a","b","c","d","e","f">>

RECURSIVE Itoa(_, _)
\* strconv-style rendering of n >= 0 in the given base, no leading zeros
Itoa(n, base) ==
    IF n < base THEN <<HexDigits[n + 1]>>
    ELSE Itoa(n \div base, base) \o <<HexDigits[(n % base) + 1]>>

\* strings.HasPrefix
HasPrefix(s, p) == Len(s) >= Len(p) /\ SubSeq(s, 1, Len(p)) = p

\* strings.HasSuffix
HasSuffix(s, p) == Len(s) >= Len(p) /\ SubSeq(s, Len(s) - Len(p) + 1, Len(s)) = p

\* strings.Contains for a one-character needle
ContainsChar(s, c) == \E k \in 1..Len(s) : s[k] = c

\* strings.Contains
Contains(s, p) == \E k \in 0..(Len(s) - Len(p)) : SubSeq(s, k + 1, k + Len(p)) = p

\* mechanism[n:]
Drop(s, n) == SubSeq(s, n + 1, Len(s))

\* strings.SplitN(s, ":", 2)[1], for a string that holds a colon
AfterColon(s) == Drop(s, CHOOSE k \in 1..Len(s) : s[k] = ":" /\ \A j \in 1..(k - 1) : s[j] # ":")

RECURSIVE Join(_, _)
\* strings.Join(elems, sep)
Join(elems, sep) ==
    IF Len(elems) = 0 THEN <<>>
    ELSE IF Len(elems) = 1 THEN elems[1]
    ELSE elems[1] \o sep \o Join(Tail(elems), sep)


---------------------------------------------------------------------------
(* net.IP, net.IPMask, net.IPNet                                           *)

NilIP == <<>>

V4InV6Prefix == <<0, 0, 0, 0, 0, 0, 0, 0, 0, 0, 255, 255>>

\* net.IP.To4: the 4-byte form of an IPv4 address (also of a 16-byte
\* IPv4-mapped one), nil for anything else
To4(ip) ==
    IF Len(ip) = 4 THEN ip
    ELSE IF Len(ip) = 16 /\ SubSeq(ip, 1, 12) = V4InV6Prefix THEN SubSeq(ip, 13, 16)
    ELSE NilIP

\* net.IP.To16
To16(ip) ==
    IF Len(ip) = 4 THEN V4InV6Prefix \o ip
    ELSE IF Len(ip) = 16 THEN ip
    ELSE NilIP

\* the eight 16-bit groups of a 16-byte address
Groups(ip) == [g \in 1..8 |-> ip[2 * g - 1] * 256 + ip[2 * g]]

\* length of the run of zero groups that starts at group g
RECURSIVE ZeroRun(_, _)
ZeroRun(gs, g) == IF g > 8 \/ gs[g] # 0 THEN 0 ELSE 1 + ZeroRun(gs, g + 1)

\* net.IP.String of a 16-byte address that is not IPv4: lower-case hex
\* groups, the leftmost longest run of two or more zero groups as "::"
IP6String(ip) ==
    LET gs   == Groups(ip)
        best == CHOOSE g \in 1..8 :
                    /\ \A h \in 1..8 : ZeroRun(gs, h) <= ZeroRun(gs, g)
                    /\ \A h \in 1..(g - 1) : ZeroRun(gs, h) < ZeroRun(gs, g)
        run  == ZeroRun(gs, best)
        hex(from, to) == Join([k \in 1..(to - from + 1) |-> Itoa(gs[from + k - 1], 16)], <<":">>)
    IN  IF run < 2 THEN hex(1, 8)
        ELSE hex(1, best - 1) \o <<":", ":">> \o hex(best + run, 8)

\* net.IP.String
IPString(ip) ==
    IF Len(ip) = 0 THEN <<"<", "n", "i", "l", ">">>
    ELSE IF To4(ip) # NilIP
         THEN Join([k \in 1..4 |-> Itoa(To4(ip)[k], 10)], <<".">>)
         ELSE IP6String(ip)

\* net.CIDRMask(ones, bits), kept as the pair
CIDRMask(ones, bits) == [ones |-> ones, bits |-> bits]

\* net.IPNet
IPNetOf(ip, mask) == [IP |-> ip, Mask |-> mask]

\* the mask length net.IPNet.String prints: a 16-byte mask on an IPv4
\* address is cut to its last four bytes (networkNumberAndMask)
PrintedOnes(n) ==
    IF To4(n.IP) # NilIP /\ n.Mask.bits = 128
    THEN (IF n.Mask.ones > 96 THEN n.Mask.ones - 96 ELSE 0)
    ELSE n.Mask.ones

\* net.IPNet.String: the canonical prefix string, address "/" mask length
IPNetString(n) == IPString(n.IP) \o <<"/">> \o Itoa(PrintedOnes(n), 10)


\* the address under a mask of n leading one bits: byte k keeps its first
\* n - 8(k-1) bits (net.IP.Mask)
MaskByte(b, keep) ==
    IF keep >= 8 THEN b
    ELSE IF keep <= 0 THEN 0
    ELSE (b \div (2 ^ (8 - keep))) * (2 ^ (8 - keep))

MaskIP(ip, ones) == [k \in 1..Len(ip) |-> MaskByte(ip[k], ones - 8 * (k - 1))]

---------------------------------------------------------------------------
(* The literals the model reads: net.ParseIP and net.ParseCIDR are the     *)
(* inverses of net.IP.String and net.IPNet.String over these addresses.    *)

IP4a == <<1, 1, 1, 1>>
IP4b == <<2, 2, 2, 2>>
IP4c == <<10, 11, 12, 13>>
IP4d == <<10, 0, 0, 0>>
IP6a == <<32, 1, 13, 184, 0, 0, 0, 0, 0, 0, 0, 0, 0, 0, 0, 1>>
IP6b == <<42, 1, 1, 17, 244, 0, 124, 0, 18, 52, 86, 120, 154, 188, 222, 240>>

IPUniverse == {IP4a, IP4b, IP4c, IP4d, IP6a, IP6b}

\* prefix lengths written in the literals
PrefixLengths(ip) == IF Len(ip) = 4 THEN {8, 16, 24, 32} ELSE {32, 64, 128}

CIDRText(ip, ones) == IPString(ip) \o <<"/">> \o Itoa(ones, 10)

\* net.ParseIP: the 16-byte form of the address the text denotes, nil when
\* the text is no address
ParseIP(text) ==
    IF \E ip \in IPUniverse : IPString(ip) = text
    THEN To16(CHOOSE ip \in IPUniverse : IPString(ip) = text)
    ELSE NilIP

\* net.ParseCIDR: ok is false for a text that is no address/length pair;
\* the network keeps the family's own length (4 or 16 bytes) and is masked
ParseCIDR(text) ==
    IF \E ip \in IPUniverse : \E n \in PrefixLengths(ip) : CIDRText(ip, n) = text
    THEN LET ip == CHOOSE i \in IPUniverse : \E n \in PrefixLengths(i) : CIDRText(i, n) = text
             n  == CHOOSE m \in PrefixLengths(ip) : CIDRText(ip, m) = text
         IN  [ok |-> TRUE, ipNet |-> IPNetOf(MaskIP(ip, n), CIDRMask(n, 8 * Len(ip)))]
    ELSE [ok |-> FALSE, ipNet |-> IPNetOf(NilIP, CIDRMask(0, 0))]

---------------------------------------------------------------------------
(* cidr.NetAddr                                                            *)

NetAddr(ipNet, isPriority, priorityIndex) ==
    [IPNet |-> ipNet, IsPriority |-> isPriority, OriginalPriorityIndex |-> priorityIndex]

---------------------------------------------------------------------------
(* config.Config and config.LoadConfig                                     *)

\* LoadConfig: a MaxLookups of 0 (absent from the file) becomes 10
DefaultMaxLookups == 10

LoadConfig(file) ==
    [MaxLookups      |-> IF file.MaxLookups = 0 THEN DefaultMaxLookups ELSE file.MaxLookups,
     PriorityEntries |-> file.PriorityEntries,
     TargetDomain    |-> file.TargetDomain]

---------------------------------------------------------------------------
(* The DNS facade: Resolver.resolveDNS and the replies of the name server  *)

maxDNSLookups == 10

\* dns.Fqdn: the name with its trailing dot
Fqdn(name) == IF HasSuffix(name, <<".">>) THEN name ELSE name \o <<".">>

\* resource records of an answer section
RR_A(ip)     == [type |-> "A", ip |-> ip, name |-> <<>>, txt |-> <<>>]
RR_AAAA(ip)  == [type |-> "AAAA", ip |-> ip, name |-> <<>>, txt |-> <<>>]
RR_MX(host)  == [type |-> "MX", ip |-> NilIP, name |-> host, txt |-> <<>>]
RR_TXT(txt)  == [type |-> "TXT", ip |-> NilIP, name |-> <<>>, txt |-> txt]

\* what c.Exchange hands back: a transport error, or a response with its
\* response code and answer section
ExchangeError   == [err |-> TRUE, rcode |-> "NONE", answer |-> <<>>]
Response(rcode, answer) == [err |-> FALSE, rcode |-> rcode, answer |-> answer]

\* resolveDNS: an error for a failed exchange and for every response code
\* other than success, the response otherwise; one query is sent either way
resolveDNS(domain, qtype, reply) ==
    [query  |-> <<Fqdn(domain), qtype>>,
     err    |-> reply.err \/ reply.rcode # "NOERROR",
     answer |-> IF reply.err \/ reply.rcode # "NOERROR" THEN <<>> ELSE reply.answer]

---------------------------------------------------------------------------
(* Resolver.ResolveAAndAAAA, one query type at a time                      *)

QTypes == <<"A", "AAAA">>

\* the NetAddr values of one answer section (lines 141-160): /32 for every
\* A record, /128 for every AAAA record, other records skipped
RECURSIVE AnswerNets(_, _, _)
AnswerNets(answer, isPriority, priorityIndex) ==
    IF answer = <<>> THEN <<>>
    ELSE LET rr == Head(answer)
             one == IF rr.type = "A"
                    THEN <<NetAddr(IPNetOf(rr.ip, CIDRMask(32, 32)), isPriority, priorityIndex)>>
                    ELSE IF rr.type = "AAAA"
                    THEN <<NetAddr(IPNetOf(rr.ip, CIDRMask(128, 128)), isPriority, priorityIndex)>>
                    ELSE <<>>
         IN  one \o AnswerNets(Tail(answer), isPriority, priorityIndex)

\* does a failed query end the call?  (line 135)
\* a ResolveAAndAAAA that ends at a failed query for every caller
FailFast_Always(isPriority) == TRUE

FailFast(isPriority) == isPriority

---------------------------------------------------------------------------
(* Resolver.FlattenSPF, up to the mechanism loop (lines 166-210)           *)

Space == " "

\* strings.ToLower on the letters an SPF version tag is written with
LowerChar(c) ==
    CASE c = "V" -> "v" [] c = "S" -> "s" [] c = "P" -> "p" [] c = "F" -> "f" [] OTHER -> c

ToLower(s) == [k \in 1..Len(s) |-> LowerChar(s[k])]

VSpf1 == <<"v", "=", "s", "p", "f", "1">>

\* strings.Fields: the maximal runs of non-space characters
RECURSIVE Fields(_)
Fields(s) ==
    IF s = <<>> THEN <<>>
    ELSE IF Head(s) = Space THEN Fields(Tail(s))
    ELSE LET n == IF ContainsChar(s, Space)
                  THEN (CHOOSE k \in 1..Len(s) : s[k] = Space /\ \A j \in 1..(k - 1) : s[j] # Space) - 1
                  ELSE Len(s)
         IN  <<SubSeq(s, 1, n)>> \o Fields(Drop(s, n))

\* lines 195-201: the joined fragments of the first TXT record whose first
\* fragment starts with v=spf1 (any case), "" when there is none
RECURSIVE FindSPF(_)
FindSPF(answer) ==
    IF answer = <<>> THEN <<>>
    ELSE LET t == Head(answer)
         IN  IF t.type = "TXT" /\ Len(t.txt) > 0 /\ HasPrefix(ToLower(t.txt[1]), VSpf1)
             THEN Join(t.txt, <<>>)
             ELSE FindSPF(Tail(answer))

\* GetLookupCount
GetLookupCount(tracker) == Cardinality(tracker)

\* a limit test that never finds the limit reached
LimitReached_Never(tracker) == FALSE

\* line 168: the fail-fast test on the lookup limit
LimitReached(tracker) == GetLookupCount(tracker) >= maxDNSLookups

\* a cycle check that finds no domain tracked
InTracker_Never(tracker, domain) == FALSE

\* line 175: the recursion/cycle test
InTracker(tracker, domain) == domain \in tracker

\* lines 166-210: the outcome of entering FlattenSPF(domain) with the TXT
\* reply the name server would give
FlattenEntry(tracker, domain, reply) ==
    IF LimitReached(tracker)
    THEN [outcome |-> "limit", tracker |-> tracker, queries |-> <<>>, mechanisms |-> <<>>]
    ELSE IF InTracker(tracker, domain)
    THEN [outcome |-> "cycle", tracker |-> tracker, queries |-> <<>>, mechanisms |-> <<>>]
    ELSE LET r   == resolveDNS(domain, "TXT", reply)
             spf == FindSPF(r.answer)
         IN  IF r.err
             THEN [outcome |-> "txtfail", tracker |-> tracker \cup {domain},
                   queries |-> <<r.query>>, mechanisms |-> <<>>]
             ELSE IF spf = <<>>
             THEN [outcome |-> "nospf", tracker |-> tracker \cup {domain},
                   queries |-> <<r.query>>, mechanisms |-> <<>>]
             ELSE [outcome |-> "walk", tracker |-> tracker \cup {domain},
                   queries |-> <<r.query>>, mechanisms |-> Tail(Fields(spf))]

---------------------------------------------------------------------------
(* Resolver.resolveMechanism (lines 232-308) and the filter of the         *)
(* mechanism loop (lines 213-218)                                          *)

Pfx_ip4     == <<"i", "p", "4">>
Pfx_ip6     == <<"i", "p", "6">>
Pfx_ip4c    == <<"i", "p", "4", ":">>
Pfx_ip6c    == <<"i", "p", "6", ":">>
Pfx_a       == <<"a">>
Pfx_mx      == <<"m", "x">>
Pfx_ptr     == <<"p", "t", "r">>
Pfx_include == <<"i", "n", "c", "l", "u", "d", "e">>
Pfx_includec == <<"i", "n", "c", "l", "u", "d", "e", ":">>

\* lines 213-218: the tokens the loop hands to resolveMechanism
Dispatched(mechanism) ==
    \/ HasPrefix(mechanism, Pfx_a)
    \/ HasPrefix(mechanism, Pfx_mx)
    \/ HasPrefix(mechanism, Pfx_ptr)
    \/ HasPrefix(mechanism, Pfx_ip4)
    \/ HasPrefix(mechanism, Pfx_ip6)
    \/ HasPrefix(mechanism, Pfx_include)

MechResult(kind, nets, target) == [kind |-> kind, nets |-> nets, target |-> target]

\* lines 234-267: an ip4:/ip6: literal
resolveLiteral(mechanism, isPriority, priorityIndex) ==
    LET cidrText == Drop(mechanism, 4)
        ip       == ParseIP(cidrText)
        parsed   == ParseCIDR(cidrText)
    IN  IF ip # NilIP
        THEN IF HasPrefix(mechanism, Pfx_ip4c)
             THEN IF To4(ip) = NilIP
                  THEN MechResult("error", <<>>, <<>>)
                  ELSE MechResult("nets",
                         <<NetAddr(IPNetOf(To4(ip), CIDRMask(32, 32)), isPriority, priorityIndex)>>, <<>>)
             ELSE IF To16(ip) = NilIP
                  THEN MechResult("error", <<>>, <<>>)
                  ELSE MechResult("nets",
                         <<NetAddr(IPNetOf(To16(ip), CIDRMask(128, 128)), isPriority, priorityIndex)>>, <<>>)
        ELSE IF ~parsed.ok
             THEN MechResult("error", <<>>, <<>>)
             ELSE MechResult("nets", <<NetAddr(parsed.ipNet, isPriority, priorityIndex)>>, <<>>)

\* resolveMechanism: what the call returns ("nets", "error", "nil" for
\* (nil, nil)) or the call it ends in ("FlattenSPF", "ResolveAAndAAAA",
\* "resolveMX", "resolvePTR", with the domain the call is made on)
resolveMechanism(baseDomain, mechanism, isPriority, priorityIndex) ==
    IF HasPrefix(mechanism, Pfx_ip4c) \/ HasPrefix(mechanism, Pfx_ip6c)
    THEN resolveLiteral(mechanism, isPriority, priorityIndex)
    ELSE IF HasPrefix(mechanism, Pfx_includec)
    THEN LET includedDomain == Drop(mechanism, 8)
         IN  IF includedDomain = baseDomain
             THEN MechResult("nil", <<>>, <<>>)
             ELSE MechResult("FlattenSPF", <<>>, includedDomain)
    ELSE LET targetDomain == IF ContainsChar(mechanism, ":") THEN AfterColon(mechanism) ELSE baseDomain
         IN  IF HasPrefix(mechanism, Pfx_a) THEN MechResult("ResolveAAndAAAA", <<>>, targetDomain)
             ELSE IF HasPrefix(mechanism, Pfx_mx) THEN MechResult("resolveMX", <<>>, targetDomain)
             ELSE IF HasPrefix(mechanism, Pfx_ptr) THEN MechResult("resolvePTR", <<>>, targetDomain)
             ELSE MechResult("nil", <<>>, <<>>)

\* one pass of the loop body, lines 212-226: a token the filter drops is
\* skipped, the others go through resolveMechanism
LoopBody(baseDomain, mechanism, isPriority, priorityIndex) ==
    IF Dispatched(mechanism)
    THEN resolveMechanism(baseDomain, mechanism, isPriority, priorityIndex)
    ELSE MechResult("skipped", <<>>, <<>>)

---------------------------------------------------------------------------
(* cidr.DeduplicateAndSort (sort.go)                                       *)

\* a deduplication in which the first entry of a prefix always stays
RECURSIVE uniqueCIDRs_FirstStays(_, _)
uniqueCIDRs_FirstStays(addrs, m) ==
    IF addrs = <<>> THEN m
    ELSE LET addr    == Head(addrs)
             cidrStr == IPNetString(addr.IPNet)
         IN  IF cidrStr \notin DOMAIN m
             THEN uniqueCIDRs_FirstStays(Tail(addrs),
                    [k \in DOMAIN m \cup {cidrStr} |-> IF k = cidrStr THEN addr ELSE m[k]])
             ELSE uniqueCIDRs_FirstStays(Tail(addrs), m)

\* lines 14-21: the map from canonical prefix string to NetAddr, filled in
\* input order; an entry is replaced only by a priority one
RECURSIVE uniqueCIDRs(_, _)
uniqueCIDRs(addrs, m) ==
    IF addrs = <<>> THEN m
    ELSE LET addr    == Head(addrs)
             cidrStr == IPNetString(addr.IPNet)
         IN  IF cidrStr \notin DOMAIN m \/ addr.IsPriority
             THEN uniqueCIDRs(Tail(addrs),
                    [k \in DOMAIN m \cup {cidrStr} |-> IF k = cidrStr THEN addr ELSE m[k]])
             ELSE uniqueCIDRs(Tail(addrs), m)

EmptyMap == [k \in {} |-> 0]

\* lines 65-77: byte-wise comparison of the 16-byte forms
RECURSIVE compareBytes(_, _, _)
compareBytes(a16, b16, k) ==
    IF k > Len(a16) THEN FALSE
    ELSE IF a16[k] # b16[k] THEN a16[k] < b16[k]
    ELSE compareBytes(a16, b16, k + 1)

compareIP(a, b) == compareBytes(To16(a), To16(b), 1)

\* lines 52-62
compareIPNets(a, b) ==
    LET isA4 == To4(a.IP) # NilIP
        isB4 == To4(b.IP) # NilIP
    IN  IF isA4 # isB4 THEN isA4 ELSE compareIP(a.IP, b.IP)

\* an order that leaves the priority tags and ranks out
less_ByAddress(a, b) == compareIPNets(a.IPNet, b.IPNet)

\* lines 29-46: the less function handed to sort.Slice
less(a, b) ==
    IF a.IsPriority # b.IsPriority THEN a.IsPriority
    ELSE IF a.IsPriority /\ b.IsPriority
    THEN a.OriginalPriorityIndex < b.OriginalPriorityIndex
    ELSE compareIPNets(a.IPNet, b.IPNet)

\* what sort.Slice can leave of the values of the map, which Go ranges over
\* in no fixed order: every arrangement in which no element is less than an
\* earlier one (elements neither of which is less keep either order)
RECURSIVE SortedOrders(_)
SortedOrders(S) ==
    IF S = {} THEN {<<>>}
    ELSE UNION {{<<x>> \o t : t \in SortedOrders(S \ {x})} :
                  x \in {y \in S : \A z \in S : ~less(z, y)}}

\* DeduplicateAndSort: the set of sequences the call can return
DeduplicateAndSort(addrs) ==
    LET m == uniqueCIDRs(addrs, EmptyMap)
    IN  SortedOrders({m[k] : k \in DOMAIN m})

---------------------------------------------------------------------------
(* formatter.FormatSegments (output.go)                                    *)

maxTXTLength == 255

finalDirective == <<"~", "a", "l", "l">>

IncludeSpf == <<"i", "n", "c", "l", "u", "d", "e", ":", "s", "p", "f">>

\* line 34: fmt.Sprintf("include:spf%d.%s", nextIndex, sld)
\* a forwarding include that names the segment it closes
includeStr_Self(nextIndex, sld) == IncludeSpf \o Itoa(nextIndex - 1, 10) \o <<".">> \o sld

includeStr(nextIndex, sld) == IncludeSpf \o Itoa(nextIndex, 10) \o <<".">> \o sld

\* lines 26-30: the token of one address
cidrStr(addr) ==
    (IF To4(addr.IPNet.IP) = NilIP THEN Pfx_ip6c ELSE Pfx_ip4c) \o IPNetString(addr.IPNet)

\* line 37: does the address start a new segment?
Overflows(currentLength, token, reservedSpace) ==
    currentLength + Len(token) + 1 + reservedSpace > maxTXTLength

\* lines 24-50, the loop over the addresses that are left
RECURSIVE PackLoop(_, _, _, _, _)
PackLoop(results, sld, segments, currentSegment, currentLength) ==
    IF results = <<>>
    THEN \* lines 53-56
         Append(segments, Join(Append(currentSegment, finalDirective), <<Space>>))
    ELSE LET token         == cidrStr(Head(results))
             nextIndex     == Len(segments) + 1
             inc           == includeStr(nextIndex, sld)
             reservedSpace == Len(inc) + 1
         IN  IF Overflows(currentLength, token, reservedSpace)
             THEN PackLoop(Tail(results), sld,
                           Append(segments, Join(Append(currentSegment, inc), <<Space>>)),
                           <<VSpf1, token>>,
                           Len(VSpf1) + 1 + Len(token) + 1)
             ELSE PackLoop(Tail(results), sld, segments,
                           Append(currentSegment, token),
                           currentLength + Len(token) + 1)

\* FormatSegments
FormatSegments(results, sld) == PackLoop(results, sld, <<>>, <<VSpf1>>, Len(VSpf1) + 1)

\* main.go lines 78-85: the record name segment i (from 0) is printed under
RecordName(i, targetDomain) ==
    (IF i > 0 THEN <<"s", "p", "f">> \o Itoa(i, 10) ELSE <<"_", "s", "p", "f">>)
        \o <<".">> \o targetDomain

---------------------------------------------------------------------------
(* The names, the configuration files and the name server of the model     *)

\* number of domains d1 .. dN beside the root
NumDomains == 10

\* most mechanisms in the root's SPF record
MaxMechanisms == 2

TargetDomain == <<"z", ".", "t">>

SpfUnflat == <<"s", "p", "f", "-", "u", "n", "f", "l", "a", "t", ".">>

\* main.go line 30
RootDomain == SpfUnflat \o TargetDomain

DomainName(k) == IF k = 0 THEN RootDomain ELSE <<"d">> \o Itoa(k, 10)

HostH == <<"h">>
Mail1 == <<"m", "1">>
Mail2 == <<"m", "2">>

PriorityCIDR == CIDRText(IP4c, 24)

\* the configuration files read: maxLookups 2 and no priority entry;
\* maxLookups absent and two priority entries, a CIDR literal and a host
ConfigFiles ==
    {[MaxLookups |-> 2, PriorityEntries |-> <<>>, TargetDomain |-> TargetDomain],
     [MaxLookups |-> 0, PriorityEntries |-> <<PriorityCIDR, HostH>>, TargetDomain |-> TargetDomain]}

Include(domain) == Pfx_includec \o domain

Tok_ip4     == Pfx_ip4c \o IPString(IP4b)
Tok_bad     == Pfx_ip4c \o <<"x">>
Tok_a       == <<"a">>
Tok_mx      == <<"m", "x">>
Tok_ptr     == <<"p", "t", "r">>
Tok_all     == <<"a", "l", "l">>
Tok_softall == <<"~", "a", "l", "l">>

\* the tokens of the root's record come from one of these groups
TokenGroups ==
    {{Tok_ip4, Tok_bad, Tok_a, Tok_softall},
     {Tok_mx, Tok_ip4},
     {Tok_ptr, Tok_all, Tok_ip4},
     {Include(DomainName(1)), Include(RootDomain), Include(Fqdn(RootDomain)), Tok_ip4}}

SeqsUpTo(S, n) == UNION {[1..k -> S] : k \in 0..n}

SPFText(mechanisms) == Join(<<VSpf1>> \o mechanisms, <<Space>>)

SPFReply(mechanisms) == Response("NOERROR", <<RR_TXT(<<SPFText(mechanisms)>>)>>)

\* a verification TXT record, then an SPF record in two fragments with an
\* upper-case tag
LeafReply ==
    Response("NOERROR",
             <<RR_TXT(<<<<"x">>>>),
               RR_TXT(<<<<"V", "=", "s", "p", "f", "1", " ">>, Tok_ip4>>)>>)

FailedReplies == {ExchangeError, Response("NXDOMAIN", <<>>)}

NoSPFReply == Response("NOERROR", <<RR_TXT(<<<<"x">>>>)>>)

\* the TXT replies the name server may give for domain k: any record of up
\* to MaxMechanisms tokens of one group for the root; for dk a record that
\* includes the next domain, the root, or dk itself written with its
\* trailing dot, or a record with one address
TXTReplies(k) ==
    FailedReplies \cup {NoSPFReply} \cup
    (IF k = 0
     THEN {SPFReply(ms) : ms \in UNION {SeqsUpTo(T, MaxMechanisms) : T \in TokenGroups}}
     ELSE {LeafReply, SPFReply(<<Include(RootDomain)>>),
           SPFReply(<<Include(Fqdn(DomainName(k)))>>)}
          \cup (IF k < NumDomains THEN {SPFReply(<<Include(DomainName(k + 1))>>)} ELSE {}))

\* the replies to an A or AAAA query; the second mail host has no AAAA
\* record
AReplies(name, qtype) ==
    FailedReplies \cup
    {Response("NOERROR", <<>>)} \cup
    (IF qtype = "A" THEN {Response("NOERROR", <<RR_A(IP4a)>>)}
     ELSE IF name = Fqdn(Mail2) THEN {}
     ELSE {Response("NOERROR", <<RR_AAAA(IP6a)>>)})

MXReplies ==
    FailedReplies \cup
    {Response("NOERROR", <<>>),
     Response("NOERROR", <<RR_A(IP4a), RR_MX(Mail1), RR_MX(Mail2)>>)}

\* the domain a fully qualified name is the name of
DomainIndex(fq) == CHOOSE k \in 0..NumDomains : Fqdn(DomainName(k)) = fq

FqNames == {Fqdn(DomainName(k)) : k \in 0..NumDomains}

NoReply == [err |-> FALSE, rcode |-> "NONE", answer |-> <<>>]

---------------------------------------------------------------------------
(* The state of one run of main                                            *)

VARIABLES
    cfg,                \* the loaded configuration
    pc,                 \* where main is
    entryIndex,         \* the index i of the priority loop, from 0
    priorityIPNets,     \* main's priorityIPNets
    nonPriorityIPNets,  \* main's nonPriorityIPNets
    finalIPNets,        \* main's finalIPNets
    output,             \* the TXT records printed, in order
    lookupTracker,      \* Resolver.lookupTracker
    stack,              \* the calls in progress under main, innermost last
    ret,                \* the value a call has just returned to main
    zone,               \* the TXT reply of each name queried so far
    queries,            \* every DNS query sent, in order
    last,               \* what the last step did
    call,               \* a function applied on its own: its arguments
    returned            \* ... and what it returned

runVars == <<cfg, pc, entryIndex, priorityIPNets, nonPriorityIPNets, finalIPNets, output,
             lookupTracker, stack, ret, zone, queries, last>>

unitVars == <<call, returned>>

vars == <<runVars, unitVars>>

\* a returned (NetAddrSlice, error) pair, None while nothing is returned
None == [nets |-> <<>>, err |-> FALSE, set |-> FALSE]
Value(nets) == [nets |-> nets, err |-> FALSE, set |-> TRUE]
Error == [nets |-> <<>>, err |-> TRUE, set |-> TRUE]

\* what a step did: op on arg, with the outcome; for a step that enters
\* FlattenSPF, whether the domain was tracked and the lookup count before
\* the step; the number of DNS queries the step sent; the value the call
\* returned in the step (None when the call goes on)
NoEvent == [op |-> "none", arg |-> <<>>, outcome |-> "none", visited |-> FALSE, count |-> 0,
            sent |-> 0, res |-> None]
Event(op, arg, outcome, visited, count, sent, res) ==
    [op |-> op, arg |-> arg, outcome |-> outcome, visited |-> visited, count |-> count,
     sent |-> sent, res |-> res]

NoCall == [fn |-> "none"]

FlattenFrame(domain, isPriority, priorityIndex) ==
    [fn |-> "FlattenSPF", pc |-> "enter", domain |-> domain, isPriority |-> isPriority,
     priorityIndex |-> priorityIndex, mechanisms |-> <<>>, allNets |-> <<>>,
     by |-> <<>>, qi |-> 0, answer |-> <<>>]

ResolveFrame(domain, isPriority, priorityIndex, by) ==
    [fn |-> "ResolveAAndAAAA", pc |-> "query", domain |-> domain, isPriority |-> isPriority,
     priorityIndex |-> priorityIndex, mechanisms |-> <<>>, allNets |-> <<>>,
     by |-> by, qi |-> 1, answer |-> <<>>]

MXFrame(domain, isPriority, priorityIndex, by) ==
    [fn |-> "resolveMX", pc |-> "query", domain |-> domain, isPriority |-> isPriority,
     priorityIndex |-> priorityIndex, mechanisms |-> <<>>, allNets |-> <<>>,
     by |-> by, qi |-> 1, answer |-> <<>>]

Top == stack[Len(stack)]
Callers == SubSeq(stack, 1, Len(stack) - 1)

Query(q, by) == [name |-> q[1], qtype |-> q[2], by |-> by]

\* a return in which FlattenSPF's loop passes over a failed mechanism as
\* resolveMX's loop passes over a failed host
Deliver_PassOver(frames, val) ==
    IF frames = <<>> THEN [stack |-> <<>>, ret |-> val]
    ELSE LET top  == frames[Len(frames)]
             rest == SubSeq(frames, 1, Len(frames) - 1)
         IN  [stack |-> Append(rest, [top EXCEPT
                          !.allNets = IF val.err THEN @ ELSE @ \o val.nets,
                          !.mechanisms = IF top.fn = "FlattenSPF" THEN Tail(@) ELSE @,
                          !.qi = IF top.fn = "FlattenSPF" THEN @ ELSE @ + 1]),
              ret   |-> None]

\* A call returns val to the frames under it.  FlattenSPF's loop (lines
\* 220-224) returns the error in its turn, dropping allNets, or appends the
\* addresses and goes on to the next mechanism; resolveMX's loop (lines
\* 323-328) skips a host that failed; with no frame left, main gets val.
RECURSIVE Deliver(_, _)
Deliver(frames, val) ==
    IF frames = <<>> THEN [stack |-> <<>>, ret |-> val]
    ELSE LET top  == frames[Len(frames)]
             rest == SubSeq(frames, 1, Len(frames) - 1)
         IN  IF top.fn = "FlattenSPF"
             THEN IF val.err
                  THEN Deliver(rest, Error)
                  ELSE [stack |-> Append(rest, [top EXCEPT !.allNets = @ \o val.nets,
                                                           !.mechanisms = Tail(@)]),
                        ret   |-> None]
             ELSE [stack |-> Append(rest, [top EXCEPT !.allNets = IF val.err THEN @ ELSE @ \o val.nets,
                                                      !.qi = @ + 1]),
                   ret   |-> None]

Init ==
    /\ cfg \in {LoadConfig(file) : file \in ConfigFiles}
    /\ pc = "priority"
    /\ entryIndex = 0
    /\ priorityIPNets = <<>>
    /\ nonPriorityIPNets = <<>>
    /\ finalIPNets = <<>>
    /\ output = <<>>
    /\ lookupTracker = {}
    /\ stack = <<>>
    /\ ret = None
    /\ zone = [fq \in FqNames |-> NoReply]
    /\ queries = <<>>
    /\ last = NoEvent
    /\ call = NoCall
    /\ returned = NoCall

---------------------------------------------------------------------------
(* main (main.go)                                                          *)

\* lines 40-41 and resolvePriorityEntry (lines 94-111): a CIDR literal is
\* taken as it is, anything else is resolved as a host name
PriorityEntry ==
    /\ pc = "priority"
    /\ entryIndex < Len(cfg.PriorityEntries)
    /\ LET entry  == cfg.PriorityEntries[entryIndex + 1]
           parsed == ParseCIDR(entry)
       IN  IF parsed.ok
           THEN /\ priorityIPNets' = Append(priorityIPNets, NetAddr(parsed.ipNet, TRUE, entryIndex))
                /\ entryIndex' = entryIndex + 1
                /\ UNCHANGED <<pc, stack>>
           ELSE /\ stack' = <<ResolveFrame(entry, TRUE, entryIndex, <<>>)>>
                /\ pc' = "priorityWait"
                /\ UNCHANGED <<priorityIPNets, entryIndex>>
    /\ last' = NoEvent
    /\ UNCHANGED <<cfg, nonPriorityIPNets, finalIPNets, output, lookupTracker, ret, zone, queries>>
    /\ UNCHANGED unitVars

\* lines 42-46: the entry has been resolved, or the run ends (log.Fatalf)
PriorityResolved ==
    /\ pc = "priorityWait"
    /\ ret.set
    /\ IF ret.err
       THEN /\ pc' = "fatal"
            /\ UNCHANGED <<priorityIPNets, entryIndex>>
       ELSE /\ pc' = "priority"
            /\ priorityIPNets' = priorityIPNets \o ret.nets
            /\ entryIndex' = entryIndex + 1
    /\ ret' = None
    /\ last' = NoEvent
    /\ UNCHANGED <<cfg, nonPriorityIPNets, finalIPNets, output, lookupTracker, stack, zone, queries>>
    /\ UNCHANGED unitVars

\* line 52: resolver.FlattenSPF(targetDomain, targetDomain, false, -1)
StartFlatten ==
    /\ pc = "priority"
    /\ entryIndex = Len(cfg.PriorityEntries)
    /\ stack' = <<FlattenFrame(SpfUnflat \o cfg.TargetDomain, FALSE, -1)>>
    /\ pc' = "flattenWait"
    /\ last' = NoEvent
    /\ UNCHANGED <<cfg, entryIndex, priorityIPNets, nonPriorityIPNets, finalIPNets, output,
                   lookupTracker, ret, zone, queries>>
    /\ UNCHANGED unitVars

\* lines 53-57
Flattened ==
    /\ pc = "flattenWait"
    /\ ret.set
    /\ IF ret.err
       THEN /\ pc' = "fatal"
            /\ UNCHANGED nonPriorityIPNets
       ELSE /\ pc' = "emit"
            /\ nonPriorityIPNets' = ret.nets
    /\ ret' = None
    /\ last' = NoEvent
    /\ UNCHANGED <<cfg, entryIndex, priorityIPNets, finalIPNets, output, lookupTracker, stack,
                   zone, queries>>
    /\ UNCHANGED unitVars

\* lines 60-89: canonicalize, pack, print every segment under its name
Emit ==
    /\ pc = "emit"
    /\ \E sorted \in DeduplicateAndSort(priorityIPNets \o nonPriorityIPNets) :
          LET segments == FormatSegments(sorted, cfg.TargetDomain)
          IN  /\ finalIPNets' = sorted
              /\ output' = [k \in 1..Len(segments) |->
                              [name |-> RecordName(k - 1, cfg.TargetDomain), txt |-> segments[k]]]
    /\ pc' = "done"
    /\ last' = NoEvent
    /\ UNCHANGED <<cfg, entryIndex, priorityIPNets, nonPriorityIPNets, lookupTracker, stack, ret,
                   zone, queries>>
    /\ UNCHANGED unitVars

---------------------------------------------------------------------------
(* Resolver (resolver.go), one step per DNS query or loop pass             *)

Running == stack # <<>>

\* the frames and main's pending value after the innermost call returns val
Returns(val) ==
    /\ stack' = Deliver(Callers, val).stack
    /\ ret' = Deliver(Callers, val).ret

\* FlattenSPF, lines 166-210: limit test, cycle test, tracking, TXT query,
\* choice of the SPF record, tokens.  The name server answers a name it
\* has answered before as it did then.
Enter ==
    /\ Running /\ Top.fn = "FlattenSPF" /\ Top.pc = "enter"
    /\ LET fq == Fqdn(Top.domain)
       IN  \E reply \in (IF fq \notin FqNames THEN FailedReplies
                         ELSE IF zone[fq] = NoReply THEN TXTReplies(DomainIndex(fq))
                         ELSE {zone[fq]}) :
             LET e == FlattenEntry(lookupTracker, Top.domain, reply)
             IN  /\ lookupTracker' = e.tracker
                 /\ queries' = queries \o [k \in 1..Len(e.queries) |-> Query(e.queries[k], <<>>)]
                 /\ zone' = IF e.queries # <<>> /\ fq \in FqNames
                            THEN [zone EXCEPT ![fq] = reply] ELSE zone
                 /\ last' = Event("FlattenSPF", Top.domain, e.outcome,
                                  Top.domain \in lookupTracker, Cardinality(lookupTracker),
                                  Len(e.queries),
                                  IF e.outcome \in {"limit", "txtfail"} THEN Error
                                  ELSE IF e.outcome \in {"cycle", "nospf"} THEN Value(<<>>)
                                  ELSE None)
                 /\ IF e.outcome \in {"limit", "txtfail"} THEN Returns(Error)
                    ELSE IF e.outcome \in {"cycle", "nospf"} THEN Returns(Value(<<>>))
                    ELSE /\ stack' = Append(Callers, [Top EXCEPT !.pc = "loop",
                                                                 !.mechanisms = e.mechanisms])
                         /\ ret' = None
    /\ UNCHANGED <<cfg, pc, entryIndex, priorityIPNets, nonPriorityIPNets, finalIPNets, output>>
    /\ UNCHANGED unitVars

\* FlattenSPF, lines 212-226: the next mechanism of the record
Mechanism ==
    /\ Running /\ Top.fn = "FlattenSPF" /\ Top.pc = "loop" /\ Top.mechanisms # <<>>
    /\ LET mechanism == Head(Top.mechanisms)
           r == LoopBody(Top.domain, mechanism, Top.isPriority, Top.priorityIndex)
       IN  /\ last' = Event("mechanism", mechanism, r.kind, FALSE, Cardinality(lookupTracker), 0,
                            IF r.kind = "error" THEN Error
                            ELSE IF r.kind \in {"skipped", "nil", "nets"} THEN Value(r.nets)
                            ELSE None)
           /\ IF r.kind = "error" THEN Returns(Error)
              ELSE /\ ret' = None
                   /\ stack' =
                        IF r.kind \in {"skipped", "nil", "nets"}
                        THEN Append(Callers, [Top EXCEPT !.allNets = @ \o r.nets,
                                                         !.mechanisms = Tail(@)])
                        ELSE IF r.kind = "FlattenSPF"
                        THEN Append(stack, FlattenFrame(r.target, Top.isPriority, Top.priorityIndex))
                        ELSE IF r.kind = "resolveMX"
                        THEN Append(stack, MXFrame(r.target, Top.isPriority, Top.priorityIndex, mechanism))
                        ELSE \* ResolveAAndAAAA, also through resolvePTR (line 345)
                             Append(stack, ResolveFrame(r.target, Top.isPriority, Top.priorityIndex, mechanism))
    /\ UNCHANGED <<cfg, pc, entryIndex, priorityIPNets, nonPriorityIPNets, finalIPNets, output,
                   lookupTracker, zone, queries>>
    /\ UNCHANGED unitVars

\* FlattenSPF, line 228: return allNets, nil
Return ==
    /\ Running /\ Top.fn = "FlattenSPF" /\ Top.pc = "loop" /\ Top.mechanisms = <<>>
    /\ Returns(Value(Top.allNets))
    /\ last' = Event("return", Top.domain, "nets", FALSE, Cardinality(lookupTracker), 0,
                     Value(Top.allNets))
    /\ UNCHANGED <<cfg, pc, entryIndex, priorityIPNets, nonPriorityIPNets, finalIPNets, output,
                   lookupTracker, zone, queries>>
    /\ UNCHANGED unitVars

\* ResolveAAndAAAA, lines 130-162: the A query, then the AAAA query; a
\* failed query ends a priority call and is passed over otherwise
QueryHost ==
    /\ Running /\ Top.fn = "ResolveAAndAAAA"
    /\ LET qtype == QTypes[Top.qi]
       IN  \E reply \in AReplies(Fqdn(Top.domain), qtype) :
             LET r       == resolveDNS(Top.domain, qtype, reply)
                 results == Top.allNets \o AnswerNets(r.answer, Top.isPriority, Top.priorityIndex)
             IN  /\ queries' = Append(queries, Query(r.query, Top.by))
                 /\ IF r.err /\ FailFast(Top.isPriority) THEN Returns(Error)
                    ELSE IF Top.qi = Len(QTypes) THEN Returns(Value(results))
                    ELSE /\ stack' = Append(Callers, [Top EXCEPT !.allNets = results, !.qi = @ + 1])
                         /\ ret' = None
                 /\ last' = Event("ResolveAAndAAAA", Top.domain,
                                  IF r.err THEN "failed" ELSE "answered", FALSE,
                                  Cardinality(lookupTracker), 1,
                                  IF r.err /\ FailFast(Top.isPriority) THEN Error
                                  ELSE IF Top.qi = Len(QTypes) THEN Value(results)
                                  ELSE None)
    /\ UNCHANGED <<cfg, pc, entryIndex, priorityIPNets, nonPriorityIPNets, finalIPNets, output,
                   lookupTracker, zone>>
    /\ UNCHANGED unitVars

\* resolveMX, lines 312-316: the MX query
QueryMX ==
    /\ Running /\ Top.fn = "resolveMX" /\ Top.pc = "query"
    /\ \E reply \in MXReplies :
          LET r == resolveDNS(Top.domain, "MX", reply)
          IN  /\ queries' = Append(queries, Query(r.query, Top.by))
              /\ IF r.err THEN Returns(Error)
                 ELSE /\ stack' = Append(Callers, [Top EXCEPT !.pc = "hosts", !.answer = r.answer])
                      /\ ret' = None
              /\ last' = Event("resolveMX", Top.domain, IF r.err THEN "failed" ELSE "answered",
                               FALSE, Cardinality(lookupTracker), 1,
                               IF r.err THEN Error ELSE None)
    /\ UNCHANGED <<cfg, pc, entryIndex, priorityIPNets, nonPriorityIPNets, finalIPNets, output,
                   lookupTracker, zone>>
    /\ UNCHANGED unitVars

\* resolveMX, lines 320-330: the next record of the answer; an MX record's
\* host is resolved, any other record is passed over
MXHost ==
    /\ Running /\ Top.fn = "resolveMX" /\ Top.pc = "hosts" /\ Top.qi <= Len(Top.answer)
    /\ LET rr == Top.answer[Top.qi]
       IN  stack' = IF rr.type = "MX"
                    THEN Append(stack, ResolveFrame(rr.name, Top.isPriority, Top.priorityIndex, Top.by))
                    ELSE Append(Callers, [Top EXCEPT !.qi = @ + 1])
    /\ last' = NoEvent
    /\ UNCHANGED <<cfg, pc, entryIndex, priorityIPNets, nonPriorityIPNets, finalIPNets, output,
                   lookupTracker, ret, zone, queries>>
    /\ UNCHANGED unitVars

\* resolveMX, line 332: return allNets, nil
MXReturn ==
    /\ Running /\ Top.fn = "resolveMX" /\ Top.pc = "hosts" /\ Top.qi > Len(Top.answer)
    /\ Returns(Value(Top.allNets))
    /\ last' = NoEvent
    /\ UNCHANGED <<cfg, pc, entryIndex, priorityIPNets, nonPriorityIPNets, finalIPNets, output,
                   lookupTracker, zone, queries>>
    /\ UNCHANGED unitVars

Next ==
    \/ PriorityEntry
    \/ PriorityResolved
    \/ StartFlatten
    \/ Flattened
    \/ Emit
    \/ Enter
    \/ Mechanism
    \/ Return
    \/ QueryHost
    \/ QueryMX
    \/ MXHost
    \/ MXReturn

Spec == Init /\ [][Next]_vars

---------------------------------------------------------------------------
(* Properties of a run                                                     *)

\* the TXT queries sent so far
TXTQueries == SelectSeq(queries, LAMBDA q : q.qtype = "TXT")

\* C1 -- budget enforcement for the configured maximum: the walk never
\* sends the TXT query of more distinct domains than cfg.MaxLookups, the
\* (N+1)th domain of a chain of includes is refused with the lookup-limit
\* error before its TXT query.
C1_ConfiguredBudgetEnforced ==
    Cardinality({TXTQueries[k].name : k \in 1..Len(TXTQueries)}) <= cfg.MaxLookups

\* C2 as stated -- FlattenSPF on a domain that is already tracked returns
\* an empty result and no error and sends no DNS query, whatever the
\* lookup count is.
C2_VisitedIsNoOpAlways ==
    (last.op = "FlattenSPF" /\ last.visited) =>
        (last.res = Value(<<>>) /\ last.sent = 0)

\* C2 amended -- FlattenSPF on a domain that is already tracked returns an
\* empty result and no error and sends no DNS query, tracking nothing new,
\* whenever the lookup count is below the limit of 10; at the limit the
\* call fails with the lookup-limit error, still without a DNS query.
C2_VisitedIsNoOpBelowLimit ==
    (last.op = "FlattenSPF" /\ last.visited) =>
        /\ last.sent = 0
        /\ Cardinality(lookupTracker) = last.count
        /\ IF last.count < maxDNSLookups
           THEN last.res = Value(<<>>) /\ last.outcome = "cycle"
           ELSE last.res = Error /\ last.outcome = "limit"

\* C2 witness: below the limit, a walk came back to a tracked domain
C2_Witness ==
    last.op = "FlattenSPF" /\ last.visited /\ last.count < maxDNSLookups /\ last.outcome = "cycle"

\* C3 -- every domain's TXT record is queried at most once in a run, and
\* the lookup count is the number of distinct domains walked (a domain is
\* the same domain with and without its trailing dot).
C3_EachDomainQueriedOnce ==
    /\ \A j \in 1..Len(TXTQueries) : \A k \in 1..Len(TXTQueries) :
          TXTQueries[j].name = TXTQueries[k].name => j = k
    /\ Cardinality(lookupTracker) = Cardinality({Fqdn(d) : d \in lookupTracker})

\* the priority entries main is done with
EntriesDone == IF pc \in {"priority", "priorityWait"} THEN entryIndex ELSE Len(cfg.PriorityEntries)

\* C8 -- a priority entry that is a host name and yields no address
\* record ends the run: once main is past such an entry the run is fatal,
\* and nothing is printed.
C8_UnresolvedPriorityEntryIsFatal ==
    \A k \in 0..(EntriesDone - 1) :
        (/\ ~ParseCIDR(cfg.PriorityEntries[k + 1]).ok
         /\ \A n \in 1..Len(priorityIPNets) : priorityIPNets[n].OriginalPriorityIndex # k)
        => (pc = "fatal" /\ output = <<>>)

MechanismNames == {Pfx_ip4, Pfx_ip6, Pfx_a, Pfx_mx, Pfx_ptr, Pfx_include}

\* a token that is one of the six mechanisms: its name, alone or followed
\* by ":" or "/"
IsMechanism(token) ==
    \E n \in MechanismNames :
        token = n \/ HasPrefix(token, n \o <<":">>) \/ HasPrefix(token, n \o <<"/">>)

\* C10 -- a token that is none of ip4, ip6, a, mx, ptr, include is passed
\* over: no error, no address, and no DNS query is sent on its behalf.
C10_OtherTokensIgnored ==
    /\ (last.op = "mechanism" /\ ~IsMechanism(last.arg)) => last.res = Value(<<>>)
    /\ \A k \in 1..Len(queries) : queries[k].by = <<>> \/ IsMechanism(queries[k].by)

---------------------------------------------------------------------------
(* The functions on their own: a call is drawn in the initial state, the   *)
(* run variables stay as they are before a run                             *)

Idle ==
    /\ cfg = [MaxLookups |-> DefaultMaxLookups, PriorityEntries |-> <<>>,
              TargetDomain |-> TargetDomain]
    /\ pc = "idle"
    /\ entryIndex = 0
    /\ priorityIPNets = <<>>
    /\ nonPriorityIPNets = <<>>
    /\ finalIPNets = <<>>
    /\ output = <<>>
    /\ lookupTracker = {}
    /\ stack = <<>>
    /\ ret = None
    /\ zone = [fq \in FqNames |-> NoReply]
    /\ queries = <<>>
    /\ last = NoEvent

\* --- DeduplicateAndSort ---

MaxAddrs == 3

Net4(ip, ones) == IPNetOf(ip, CIDRMask(ones, 32))
Net6(ip, ones) == IPNetOf(ip, CIDRMask(ones, 128))

\* the addresses lists are drawn from: both families, one address under
\* two mask lengths, one prefix in its 4-byte and in its 16-byte form (as
\* an A record gives it), priority entries of two ranks
SortUniverse ==
    {NetAddr(Net4(IP4a, 32), FALSE, -1),
     NetAddr(IPNetOf(To16(IP4a), CIDRMask(32, 32)), FALSE, -1),
     NetAddr(Net4(IP4b, 32), FALSE, -1),
     NetAddr(Net4(IP4d, 8), FALSE, -1),
     NetAddr(Net4(IP4d, 16), FALSE, -1),
     NetAddr(Net6(IP6a, 128), FALSE, -1),
     NetAddr(Net4(IP4a, 32), TRUE, 0),
     NetAddr(Net4(IP4d, 8), TRUE, 0),
     NetAddr(Net4(IP4a, 32), TRUE, 1),
     NetAddr(Net4(IP4d, 16), TRUE, 1),
     NetAddr(Net6(IP6a, 128), TRUE, 1)}

\* the orderings of a list
Reorderings(addrs) ==
    {[k \in 1..Len(addrs) |-> addrs[p[k]]] :
        p \in {q \in [1..Len(addrs) -> 1..Len(addrs)] :
                 \A x, y \in 1..Len(addrs) : q[x] = q[y] => x = y}}

InitSort ==
    /\ Idle
    /\ call \in {[fn |-> "DeduplicateAndSort", addrs |-> addrs] :
                   addrs \in SeqsUpTo(SortUniverse, MaxAddrs)}
    /\ returned = NoCall

\* the call on the list
Canonicalize ==
    /\ call.fn = "DeduplicateAndSort"
    /\ returned = NoCall
    /\ \E out \in DeduplicateAndSort(call.addrs) :
          returned' = [fn |-> "DeduplicateAndSort", out |-> out, again |-> <<>>, twice |-> FALSE,
                          second |-> "none"]
    /\ UNCHANGED <<runVars, call>>

\* a second call, on some ordering of the same list
CanonicalizeReordered ==
    /\ returned.fn = "DeduplicateAndSort"
    /\ ~returned.twice
    /\ \E reordered \in Reorderings(call.addrs) :
          \E out \in DeduplicateAndSort(reordered) :
              returned' = [returned EXCEPT !.again = out, !.twice = TRUE, !.second = "reordered"]
    /\ UNCHANGED <<runVars, call>>

\* a second call, on the output of the first
CanonicalizeOutput ==
    /\ returned.fn = "DeduplicateAndSort"
    /\ ~returned.twice
    /\ \E out \in DeduplicateAndSort(returned.out) :
          returned' = [returned EXCEPT !.again = out, !.twice = TRUE, !.second = "output"]
    /\ UNCHANGED <<runVars, call>>

NextSort == Canonicalize

SpecSort == InitSort /\ [][NextSort]_vars

\* the call on a list, then on an ordering of it or on its own output
NextReorder == Canonicalize \/ CanonicalizeReordered \/ CanonicalizeOutput

SpecReorder == InitSort /\ [][NextReorder]_vars

cidrKey(addr) == IPNetString(addr.IPNet)

\* what a list says: the prefix, the tag and the rank of each entry
Entries(addrs) ==
    [k \in 1..Len(addrs) |->
        <<cidrKey(addrs[k]), addrs[k].IsPriority, addrs[k].OriginalPriorityIndex>>]

\* C4 -- determinism under reordering: DeduplicateAndSort returns the same
\* sequence (prefixes, tags, ranks, order) for any two orderings of one
\* list.
C4_SameOutputForEveryOrdering ==
    (returned.fn = "DeduplicateAndSort" /\ returned.second = "reordered") =>
        Entries(returned.again) = Entries(returned.out)

\* C5 -- dedup correctness: the output holds exactly one entry for each
\* canonical prefix string of the input; the entry is priority-tagged iff
\* some input entry of that prefix is; when exactly one input entry of the
\* prefix is priority-tagged the output entry has its rank.
C5_DedupCorrect ==
    returned.fn = "DeduplicateAndSort" =>
        LET in  == call.addrs
            out == returned.out
        IN  /\ {cidrKey(out[k]) : k \in 1..Len(out)} = {cidrKey(in[k]) : k \in 1..Len(in)}
            /\ \A j, k \in 1..Len(out) : cidrKey(out[j]) = cidrKey(out[k]) => j = k
            /\ \A k \in 1..Len(out) :
                  LET tagged == {j \in 1..Len(in) :
                                   cidrKey(in[j]) = cidrKey(out[k]) /\ in[j].IsPriority}
                  IN  /\ out[k].IsPriority <=> tagged # {}
                      /\ Cardinality(tagged) = 1 =>
                            \A j \in tagged :
                                out[k].OriginalPriorityIndex = in[j].OriginalPriorityIndex

\* C5 witness: a prefix came first untagged and then priority-tagged, and
\* one entry came out for the two
C5_Witness ==
    /\ returned.fn = "DeduplicateAndSort"
    /\ Len(call.addrs) = 2
    /\ cidrKey(call.addrs[1]) = cidrKey(call.addrs[2])
    /\ ~call.addrs[1].IsPriority
    /\ call.addrs[2].IsPriority
    /\ Len(returned.out) = 1

\* --- FormatSegments ---

MaxResults == 3
MinSldLen == 180
MaxSldLen == 240

\* the sorted lists FormatSegments is handed: non-priority prefixes of both
\* families, whose tokens are 13 to 47 characters long
FmtUniverse ==
    {NetAddr(Net4(IP4a, 32), FALSE, -1),
     NetAddr(Net4(IP4d, 8), FALSE, -1),
     NetAddr(Net4(MaskIP(IP4c, 24), 24), FALSE, -1),
     NetAddr(Net6(IP6a, 128), FALSE, -1),
     NetAddr(Net6(IP6b, 128), FALSE, -1)}

SortedLists ==
    {l \in SeqsUpTo(FmtUniverse, MaxResults) :
        \A j, k \in 1..Len(l) : j < k => less(l[j], l[k])}

\* a zone name of n characters
ZoneName(n) == [k \in 1..(n - 2) |-> "z"] \o <<".", "t">>

Zones == {TargetDomain} \cup {ZoneName(n) : n \in MinSldLen..MaxSldLen}

InitFmt ==
    /\ Idle
    /\ call \in {[fn |-> "FormatSegments", results |-> results, sld |-> sld] :
                   results \in SortedLists, sld \in Zones}
    /\ returned = NoCall

\* FormatSegments and the names main prints the segments under
Format ==
    /\ call.fn = "FormatSegments"
    /\ returned = NoCall
    /\ LET segments == FormatSegments(call.results, call.sld)
       IN  returned' = [fn       |-> "FormatSegments",
                        segments |-> segments,
                        names    |-> [k \in 1..Len(segments) |-> RecordName(k - 1, call.sld)]]
    /\ UNCHANGED <<runVars, call>>

NextFmt == Format

SpecFmt == InitFmt /\ [][NextFmt]_vars

\* C6 -- every string FormatSegments returns is at most 255 characters
\* long, for every address list and every zone name.
C6_SegmentsFit ==
    returned.fn = "FormatSegments" =>
        \A k \in 1..Len(returned.segments) : Len(returned.segments[k]) <= maxTXTLength

LastField(s) == Fields(s)[Len(Fields(s))]

\* C7 -- well-formed chain: there is at least one segment; every segment
\* starts with the token v=spf1; the last one ends with ~all and no other
\* contains ~all; a segment that is not the last ends with the include of
\* the name the next segment is printed under.
C7_WellFormedChain ==
    returned.fn = "FormatSegments" =>
        LET segments == returned.segments
            n        == Len(segments)
        IN  /\ n >= 1
            /\ \A k \in 1..n : Fields(segments[k])[1] = VSpf1
            /\ LastField(segments[n]) = finalDirective
            /\ \A k \in 1..(n - 1) :
                  /\ ~Contains(segments[k], finalDirective)
                  /\ LastField(segments[k]) = Pfx_includec \o returned.names[k + 1]

\* C7 witness: a list was split over three segments or more
C7_Witness ==
    /\ returned.fn = "FormatSegments"
    /\ call.results # <<>>
    /\ Len(returned.segments) >= 3

\* --- resolveMechanism ---

LiteralsOf(family) ==
    LET ips == {ip \in IPUniverse : Len(ip) = family}
    IN  {IPString(ip) : ip \in ips}
          \cup UNION {{CIDRText(ip, ones) : ones \in PrefixLengths(ip)} : ip \in ips}

\* ip4: and ip6: tokens over addresses and address/length pairs of both
\* families, and a literal that is neither
LiteralTokens ==
    {pfx \o text : pfx \in {Pfx_ip4c, Pfx_ip6c},
                   text \in LiteralsOf(4) \cup LiteralsOf(16) \cup {<<"x">>}}

OtherTokens ==
    {Tok_a, Tok_mx, Tok_ptr, Tok_all, Tok_softall, Include(DomainName(1)), Include(RootDomain),
     <<"a", ":">> \o HostH, <<"m", "x", ":">> \o HostH}

InitMech ==
    /\ Idle
    /\ call \in {[fn |-> "resolveMechanism", baseDomain |-> RootDomain, mechanism |-> mechanism,
                  isPriority |-> p[1], priorityIndex |-> p[2]] :
                   mechanism \in LiteralTokens \cup OtherTokens,
                   p \in {<<FALSE, -1>>, <<TRUE, 0>>, <<TRUE, 1>>}}
    /\ returned = NoCall

Resolve ==
    /\ call.fn = "resolveMechanism"
    /\ returned = NoCall
    /\ returned' = [fn     |-> "resolveMechanism",
                    result |-> resolveMechanism(call.baseDomain, call.mechanism,
                                                call.isPriority, call.priorityIndex)]
    /\ UNCHANGED <<runVars, call>>

NextMech == Resolve

SpecMech == InitMech /\ [][NextMech]_vars

\* the token names one family and its literal is of the other
FamilyMismatch(mechanism) ==
    \/ HasPrefix(mechanism, Pfx_ip6c) /\ Drop(mechanism, 4) \in LiteralsOf(4)
    \/ HasPrefix(mechanism, Pfx_ip4c) /\ Drop(mechanism, 4) \in LiteralsOf(16)

\* C9 -- family check of literals: resolveMechanism returns an error and
\* no address for an ip6: token with an IPv4 literal and for an ip4: token
\* with an IPv6 literal, bare or with a prefix length.
C9_FamilyChecked ==
    (returned.fn = "resolveMechanism" /\ FamilyMismatch(call.mechanism)) =>
        (returned.result.kind = "error" /\ returned.result.nets = <<>>)

---------------------------------------------------------------------------
(* Properties of a run, continued                                          *)

\* a TXT query of the walk has failed
TXTFailed ==
    \E k \in 1..Len(TXTQueries) :
        LET name == TXTQueries[k].name
        IN  name \notin FqNames \/ zone[name].err \/ zone[name].rcode # "NOERROR"

\* the last step was a TXT query, a mechanism or an MX query of the walk
\* that gave an error
WalkStepFailed ==
    last.op \in {"FlattenSPF", "mechanism", "resolveMX"} /\ last.res = Error

\* C11 -- fail-fast without partial output: when a TXT query of the walk
\* fails or a mechanism returns an error, every FlattenSPF call in progress
\* returns in that step, main gets the error and no address, and the run
\* ends fatal with no TXT record printed.
C11_FailFastNoPartialOutput ==
    /\ (pc = "flattenWait" /\ (TXTFailed \/ WalkStepFailed)) =>
          (stack = <<>> /\ ret.set /\ ret.err /\ ret.nets = <<>>)
    /\ TXTFailed => (pc \in {"flattenWait", "fatal"} /\ nonPriorityIPNets = <<>>)
    /\ (TXTFailed \/ pc = "fatal") => (output = <<>> /\ finalIPNets = <<>>)

\* C11 witness: the root gave an address, then included d1, whose TXT
\* query failed, and the run ended with nothing printed
C11_Witness ==
    /\ pc = "fatal"
    /\ zone[Fqdn(RootDomain)] = SPFReply(<<Tok_ip4, Include(DomainName(1))>>)
    /\ zone[Fqdn(DomainName(1))] \in FailedReplies
    /\ Len(TXTQueries) = 2
    /\ output = <<>>

---------------------------------------------------------------------------
(* Properties of DeduplicateAndSort, continued                             *)

\* C12 -- priority first, in configured order: in the output every
\* priority-tagged address comes before every non-priority address, and the
\* priority-tagged addresses are in non-decreasing order of the index of
\* their entry in the priority list, whatever the order of the input.
C12_PriorityFirstInOrder ==
    returned.fn = "DeduplicateAndSort" =>
        LET out == returned.out
        IN  \A j, k \in 1..Len(out) :
              j < k =>
                /\ out[k].IsPriority => out[j].IsPriority
                /\ (out[j].IsPriority /\ out[k].IsPriority) =>
                      out[j].OriginalPriorityIndex <= out[k].OriginalPriorityIndex

\* C12 witness: a non-priority address, an entry of rank 1 and an entry of
\* rank 0 went in, in that order, and three addresses came out
C12_Witness ==
    /\ returned.fn = "DeduplicateAndSort"
    /\ Len(call.addrs) = 3
    /\ ~call.addrs[1].IsPriority
    /\ call.addrs[2].IsPriority /\ call.addrs[2].OriginalPriorityIndex = 1
    /\ call.addrs[3].IsPriority /\ call.addrs[3].OriginalPriorityIndex = 0
    /\ Len(returned.out) = 3

\* x is below y as a 16-byte value
Below(x, y) ==
    \E i \in 1..16 : x[i] < y[i] /\ \A h \in 1..(i - 1) : x[h] = y[h]

IsIPv4(ipNet) == To4(ipNet.IP) # NilIP

\* C13 -- order of the non-priority addresses in the output: IPv4 prefixes
\* before IPv6 prefixes, prefixes of one family in ascending order of
\* their 16-byte address, and prefixes of one address in ascending order of
\* mask length.
C13_NonPriorityOrder ==
    returned.fn = "DeduplicateAndSort" =>
        LET out == returned.out
        IN  \A j, k \in 1..Len(out) :
              (j < k /\ ~out[j].IsPriority /\ ~out[k].IsPriority) =>
                LET a == out[j].IPNet
                    b == out[k].IPNet
                IN  /\ IsIPv4(b) => IsIPv4(a)
                    /\ IsIPv4(a) = IsIPv4(b) => ~Below(To16(b.IP), To16(a.IP))
                    /\ To16(a.IP) = To16(b.IP) => a.Mask.ones <= b.Mask.ones

\* C14 -- idempotence: DeduplicateAndSort applied to its own output
\* returns that same sequence.
C14_Idempotent ==
    (returned.fn = "DeduplicateAndSort" /\ returned.second = "output") =>
        Entries(returned.again) = Entries(returned.out)

---------------------------------------------------------------------------
(* Properties of a run, continued                                          *)

\* the step sends an A or AAAA query of the walk, and the query fails
DiscoveryQueryFails ==
    /\ pc = "flattenWait" /\ Running /\ Top.fn = "ResolveAAndAAAA"
    /\ last'.op = "ResolveAAndAAAA" /\ last'.outcome = "failed"

\* C15 -- in the walk a failed A or AAAA query (for the target of an a or
\* ptr mechanism or for a host of an MX answer) is no error: no FlattenSPF
\* call returns, the query adds no address, the addresses the call has so
\* far stay (the AAAA query follows a failed A query; after a failed AAAA
\* query the caller gets the A addresses and goes on to its next mechanism
\* or host with everything it had).
C15_DiscoveryFailuresNotFatal ==
    /\ []((pc = "flattenWait" /\ last.op = "ResolveAAndAAAA" /\ last.outcome = "failed") =>
            (Running /\ ~ret.set /\ ~last.res.err))
    /\ [][DiscoveryQueryFails =>
            /\ ~ret'.set
            /\ lookupTracker' = lookupTracker
            /\ IF Top.qi < Len(QTypes)
               THEN stack' = Append(Callers, [Top EXCEPT !.qi = @ + 1])
               ELSE LET caller == stack[Len(stack) - 1]
                    IN  /\ Len(stack') = Len(stack) - 1
                        /\ SubSeq(stack', 1, Len(stack) - 2) = SubSeq(stack, 1, Len(stack) - 2)
                        /\ stack'[Len(stack')].fn = caller.fn
                        /\ stack'[Len(stack')].allNets = caller.allNets \o Top.allNets
                        /\ last'.res = Value(Top.allNets)
         ]_vars

\* C15 witness: for a host of an MX answer the AAAA query failed after the
\* A query gave an address, which the call returned
C15_Witness ==
    /\ pc = "flattenWait"
    /\ last.op = "ResolveAAndAAAA" /\ last.outcome = "failed"
    /\ last.arg = Mail1
    /\ last.res.set /\ last.res.nets # <<>>
    /\ Running /\ Top.fn = "resolveMX" /\ Top.allNets # <<>>

\* the step enters FlattenSPF for a domain that is not tracked
EntersUntracked ==
    Running /\ Top.fn = "FlattenSPF" /\ Top.pc = "enter" /\ Top.domain \notin lookupTracker

\* C16 as stated -- lookup accounting: the visited set only grows; it
\* grows by exactly one name exactly when FlattenSPF is entered for a
\* domain not yet in it; every other step (the ip4, ip6, a, mx, ptr
\* mechanisms, a self-referential include, the priority entries) leaves it
\* as it is.
C16_GrowsOnEveryNewDomain ==
    [][IF EntersUntracked
       THEN /\ lookupTracker' = lookupTracker \cup {Top.domain}
            /\ Cardinality(lookupTracker') = Cardinality(lookupTracker) + 1
       ELSE lookupTracker' = lookupTracker]_vars

\* C16 amended -- the visited set only grows; it grows by exactly one name
\* exactly when FlattenSPF is entered, with the lookup count below the
\* limit of 10, for a domain not yet in it; at the limit such a call
\* returns the lookup-limit error and tracks nothing; every other step
\* leaves the set and the count as they are.
C16_GrowsOnNewDomainBelowLimit ==
    [][/\ lookupTracker \subseteq lookupTracker'
       /\ IF EntersUntracked /\ Cardinality(lookupTracker) < maxDNSLookups
          THEN /\ lookupTracker' = lookupTracker \cup {Top.domain}
               /\ Cardinality(lookupTracker') = Cardinality(lookupTracker) + 1
          ELSE /\ lookupTracker' = lookupTracker
               /\ EntersUntracked => (last'.outcome = "limit" /\ last'.res = Error)]_vars

\* C16 witness: after the priority entries, with their A and AAAA
\* queries, and an ip4 mechanism of the root, which tracked nothing, an
\* include made the visited set grow from one name to two
C16_Witness ==
    /\ last.op = "FlattenSPF" /\ ~last.visited /\ last.count = 1
    /\ lookupTracker = {RootDomain, DomainName(1)}
    /\ zone[Fqdn(RootDomain)] = SPFReply(<<Tok_ip4, Include(DomainName(1))>>)
    /\ Len(priorityIPNets) >= 2
    /\ \E k \in 1..Len(queries) : queries[k].qtype = "AAAA"

---------------------------------------------------------------------------
(* Properties of FormatSegments, continued                                 *)

\* the string a segment with these tokens would be once the include of
\* segment next is appended
Closed(tokens, next, sld) ==
    Join(Append(tokens, Pfx_includec \o RecordName(next, sld)), <<Space>>)

\* C17 -- greedy split at the boundary: an address opens a new segment
\* exactly when the current segment with its token and the forwarding
\* include appended, joined by single spaces, would be longer than 255
\* characters; when that string is 255 characters or shorter the address
\* goes into the current segment.
C17_SplitExactlyWhenTooLong ==
    returned.fn = "FormatSegments" =>
        \A k \in 1..Len(returned.segments) :
            LET f == Fields(returned.segments[k])
            IN  \A p \in 2..(Len(f) - 1) :
                  IF p = 2 /\ k > 1
                  THEN \* f[p] opened segment k
                       LET before == Fields(returned.segments[k - 1])
                       IN  Len(Closed(Append(SubSeq(before, 1, Len(before) - 1), f[p]),
                                      k - 1, call.sld)) > maxTXTLength
                  ELSE \* f[p] went into segment k after f[1..p-1]
                       Len(Closed(SubSeq(f, 1, p), k, call.sld)) <= maxTXTLength

\* the tokens of a segment between v=spf1 and its last token
Inner(segment) == SubSeq(Fields(segment), 2, Len(Fields(segment)) - 1)

\* the address tokens of the segments, read segment by segment
RECURSIVE AddressTokens(_)
AddressTokens(segments) ==
    IF segments = <<>> THEN <<>> ELSE Inner(Head(segments)) \o AddressTokens(Tail(segments))

\* an address as its token
Rendered(addr) ==
    (IF IsIPv4(addr.IPNet) THEN Pfx_ip4c ELSE Pfx_ip6c) \o IPNetString(addr.IPNet)

\* C19 -- packing loses and reorders nothing: the address tokens of the
\* segments, read from left to right, are the input addresses in input
\* order, each once, as ip4:<prefix> or ip6:<prefix>; and no segment holds
\* zero addresses unless it is the only one.
C19_PackingKeepsAddresses ==
    returned.fn = "FormatSegments" =>
        /\ AddressTokens(returned.segments) =
              [k \in 1..Len(call.results) |-> Rendered(call.results[k])]
        /\ Len(returned.segments) > 1 =>
              \A k \in 1..Len(returned.segments) : Inner(returned.segments[k]) # <<>>

---------------------------------------------------------------------------
(* FlattenSPF called concurrently on one Resolver: the entry of the call,  *)
(* lines 166-183, for each walker and each domain on its way               *)

Walkers == {"w1", "w2"}

\* the domains DomainName(a) .. DomainName(b), in order
Chain(a, b) == [k \in 1..(b - a + 1) |-> DomainName(a + k - 1)]

\* the domains a walker calls FlattenSPF on, one after the other: the
\* first walker goes down the chain of includes from the root, the second
\* walks the rest of a chain from some domain on
Ways ==
    [w \in Walkers |->
        IF w = "w1" THEN {Chain(0, b) : b \in 0..NumDomains}
        ELSE {Chain(a, NumDomains) : a \in 0..NumDomains}]

Walker(todo) == [pc |-> "limit", todo |-> todo, err |-> FALSE]

InitConc ==
    /\ Idle
    /\ call \in {[fn |-> "FlattenSPF", mu |-> "free", walkers |-> ws] :
                   ws \in {f \in [Walkers -> UNION {{Walker(t) : t \in Ways[w]} : w \in Walkers}] :
                             \A w \in Walkers : f[w].todo \in Ways[w]}}
    /\ returned = [fn |-> "FlattenSPF", inserted |-> <<>>]

\* line 168: GetLookupCount (lines 97-101, under the mutex) against the
\* limit; at the limit the call returns the error and the walker's walk
\* ends
CheckLimit(w) ==
    /\ call.fn = "FlattenSPF"
    /\ call.walkers[w].pc = "limit"
    /\ call.mu = "free"
    /\ call' = [call EXCEPT !.walkers[w] =
                  IF LimitReached(lookupTracker)
                  THEN [@ EXCEPT !.pc = "done", !.err = TRUE]
                  ELSE [@ EXCEPT !.pc = "lock"]]
    /\ UNCHANGED <<runVars, returned>>

\* line 173: r.mu.Lock()
Lock(w) ==
    /\ call.fn = "FlattenSPF"
    /\ call.walkers[w].pc = "lock"
    /\ call.mu = "free"
    /\ call' = [call EXCEPT !.mu = w, !.walkers[w].pc = "critical"]
    /\ UNCHANGED <<runVars, returned>>

\* lines 175-183, with the mutex held: the cycle test, the insertion, and
\* r.mu.Unlock() either way; the walker goes on to its next domain
Track(w) ==
    /\ call.fn = "FlattenSPF"
    /\ call.walkers[w].pc = "critical"
    /\ call.mu = w
    /\ LET domain == Head(call.walkers[w].todo)
           rest   == Tail(call.walkers[w].todo)
       IN  /\ IF InTracker(lookupTracker, domain)
              THEN UNCHANGED <<lookupTracker, returned>>
              ELSE /\ lookupTracker' = lookupTracker \cup {domain}
                   /\ returned' = [returned EXCEPT !.inserted = Append(@, domain)]
           /\ call' = [call EXCEPT !.mu = "free",
                                   !.walkers[w] = [@ EXCEPT !.todo = rest,
                                                            !.pc = IF rest = <<>> THEN "done"
                                                                   ELSE "limit"]]
    /\ UNCHANGED <<cfg, pc, entryIndex, priorityIPNets, nonPriorityIPNets, finalIPNets, output,
                   stack, ret, zone, queries, last>>

NextConc == \E w \in Walkers : CheckLimit(w) \/ Lock(w) \/ Track(w)

SpecConc == InitConc /\ [][NextConc]_vars

\* C18 -- budget under concurrency: for every interleaving each domain
\* name is inserted into the visited set at most once, the lookup count is
\* the number of distinct domains walked, and the visited set never holds
\* more names than the lookup limit.
C18_BudgetUnderConcurrency ==
    returned.fn = "FlattenSPF" =>
        /\ \A j, k \in 1..Len(returned.inserted) :
              returned.inserted[j] = returned.inserted[k] => j = k
        /\ GetLookupCount(lookupTracker) = Len(returned.inserted)
        /\ lookupTracker = {returned.inserted[k] : k \in 1..Len(returned.inserted)}
        /\ GetLookupCount(lookupTracker) <= maxDNSLookups

====
